---- MODULE Spec2Model ----
(***************************************************************************)
(* Model of drivers/iommu/virtio-iommu-topology.c: the capability-window   *)
(* reader, the topology table decoder (viommu_parse_topology), the         *)
(* registry (the list viommus under viommus_lock), the endpoint resolver   *)
(* (virt_iommu_setup), virt_dma_configure and virt_set_iommu_ops.          *)
(*                                                                         *)
(* A u32 is the pair <<hi, lo>> of its 16-bit halves, so that arithmetic   *)
(* keeps its 32-bit width (all sums are taken modulo 2^32).                *)
(***************************************************************************)
EXTENDS Integers, Sequences, FiniteSets, TLC

VARIABLES
    hw,       \* per transport device: its reader, capability and config space
    present,  \* the devices of this system that get probed
    win,      \* per transport device: the PCI config window registers
    heap,     \* the viommu_spec objects allocated so far (kzalloc), by node id
    next,     \* list_head.next of node 0 (the head viommus) and of each spec
    prev,     \* list_head.prev likewise
    mutex,    \* viommus_lock: Unlocked, or the thread that holds it
    fwspec,   \* per device: dev->iommu_fwspec
    pc,       \* per thread: its position
    loc,      \* per thread: the locals of the call it is in
    defer     \* history (kept by SpecSeq only), per device: the last
              \* Deferred resolution and the ops registered for its table
              \* since

vars == <<hw, present, win, heap, next, prev, mutex, fwspec, pc, loc, defer>>

----------------------------------------------------------------------------
(* 32-bit unsigned arithmetic on <<hi, lo>> pairs *)

U16 == 65536

Z32 == <<0, 0>>

N32(n) == <<n \div U16, n % U16>>

Add32(a, b) ==
    LET lo == a[2] + b[2]
        hi == a[1] + b[1] + (lo \div U16)
    IN  <<hi % U16, lo % U16>>

Lt32(a, b) == a[1] < b[1] \/ (a[1] = b[1] /\ a[2] < b[2])

Le32(a, b) == a = b \/ Lt32(a, b)

\* a - b modulo 2^32
Sub32(a, b) ==
    LET lo == a[2] - b[2]
        br == IF lo < 0 THEN 1 ELSE 0
        hi == a[1] - b[1] - br
    IN  <<(hi + U16) % U16, (lo + U16) % U16>>

IsZero32(a) == a = Z32

\* the value of a u32 known to be below 2^31 (sizes, counts)
Int32(a) == a[1] * U16 + a[2]

----------------------------------------------------------------------------
(* Device config space: the virtio_iommu_config header and the topology    *)
(* table behind it, as bytes.                                              *)

\* sizeof(union viommu_topo_cfg)
EntrySize == 16

\* offsetof(struct virtio_iommu_config, topo_config.offset / .num_items /
\* .item_length)
TopoOffsetOff == 36
TopoNumItemsOff == 40
TopoItemLengthOff == 44

\* byte k (0 = least significant) of a little-endian u32
ByteOf(w, k) ==
    CASE k = 0 -> w[2] % 256
      [] k = 1 -> w[2] \div 256
      [] k = 2 -> w[1] % 256
      [] OTHER -> w[1] \div 256

LE32(b0, b1, b2, b3) == <<b3 * 256 + b2, b1 * 256 + b0>>

\* the byte at offset o (a natural number) of the device's config structure
CfgByteN(h, o) ==
    IF o >= TopoOffsetOff /\ o < TopoOffsetOff + 4
      THEN ByteOf(h.hdr.offset, o - TopoOffsetOff)
    ELSE IF o >= TopoNumItemsOff /\ o < TopoNumItemsOff + 4
      THEN ByteOf(h.hdr.num_items, o - TopoNumItemsOff)
    ELSE IF o >= TopoItemLengthOff /\ o < TopoItemLengthOff + 4
      THEN ByteOf(h.hdr.item_length, o - TopoItemLengthOff)
    ELSE IF o >= h.base /\ o < h.base + 4 * Len(h.words)
      THEN ByteOf(h.words[((o - h.base) \div 4) + 1], (o - h.base) % 4)
    ELSE 0

\* the same at a 32-bit offset; the structure reads as zero far behind its end
CfgByte32(h, a) == IF a[1] # 0 THEN 0 ELSE CfgByteN(h, a[2])

\* the byte at address a of BAR bar of a PCI transport: the device config
\* structure lies at [cap.offset, cap.offset + cap.length) of BAR cap.bar,
\* everything else in the BARs is other structures of the device (h.other)
BarByte(h, bar, a) ==
    IF bar = h.cap.bar /\ Le32(h.cap.offset, a)
          /\ Lt32(Sub32(a, h.cap.offset), h.cap.length)
      THEN CfgByte32(h, Sub32(a, h.cap.offset))
      ELSE h.other

\* what the data register behind the capability window returns
DataReg(h, w) ==
    LE32(BarByte(h, w.bar, w.offset),
         BarByte(h, w.bar, Add32(w.offset, N32(1))),
         BarByte(h, w.bar, Add32(w.offset, N32(2))),
         BarByte(h, w.bar, Add32(w.offset, N32(3))))

----------------------------------------------------------------------------
(* Windowed register reader *)

\* one pci_write_config_* to a field of the window capability
WriteWin(w, wr) ==
    CASE wr.field = "bar"    -> [w EXCEPT !.bar = wr.val]
      [] wr.field = "length" -> [w EXCEPT !.length = wr.val]
      [] OTHER               -> [w EXCEPT !.offset = wr.val]

RECURSIVE ApplyWrites(_, _)
ApplyWrites(w, writes) ==
    IF writes = <<>> THEN w
    ELSE ApplyWrites(WriteWin(w, Head(writes)), Tail(writes))

\* viommu_pci_switch_cfg: err, the config writes issued in order, and the
\* window they leave
viommu_pci_switch_cfg(cap, w, length, offset) ==
    LET off == Add32(offset, cap.offset)
    IN  IF Lt32(Add32(cap.offset, cap.length), Add32(off, length))
          THEN [err |-> "EOVERFLOW", writes |-> <<>>, win |-> w]
          ELSE LET writes == << [field |-> "bar", val |-> cap.bar],
                                [field |-> "length", val |-> length],
                                [field |-> "offset", val |-> off] >>
               IN  [err |-> "0", writes |-> writes,
                    win |-> ApplyWrites(w, writes)]

\* viommu_pci_readl: the value returned, the window left behind, whether
\* the data register was read, and the config accesses in the order made
viommu_pci_readl(h, w, offset) ==
    LET r == viommu_pci_switch_cfg(h.cap, w, N32(4), offset)
    IN  IF r.err # "0"
          THEN [val |-> Z32, win |-> w, issued |-> FALSE, accesses |-> <<>>]
          ELSE [val |-> DataReg(h, r.win), win |-> r.win, issued |-> TRUE,
                accesses |-> r.writes
                             \o <<[field |-> "data", val |-> DataReg(h, r.win)]>>]

\* viommu_mmio_readl: readl(base + offset)
viommu_mmio_readl(h, w, offset) ==
    LET b(j) == IF offset[1] # 0 THEN 0 ELSE CfgByteN(h, offset[2] + j)
    IN  [val |-> LE32(b(0), b(1), b(2), b(3)), win |-> w, issued |-> TRUE,
         accesses |-> <<>>]

\* the call through viommu_readl_fn
readl_fn(h, w, offset) ==
    IF h.reader = "pci" THEN viommu_pci_readl(h, w, offset)
                        ELSE viommu_mmio_readl(h, w, offset)

\* the loop of viommu_ccopy; reads lists the calls of the reader in the
\* order made, each with its offset and the value returned
RECURSIVE ccopy_loop(_, _, _, _, _, _)
ccopy_loop(h, w, dest, i, n, offset) ==
    IF i >= n THEN [dest |-> dest, win |-> w, reads |-> <<>>]
    ELSE LET r == readl_fn(h, w, offset)
             rest == ccopy_loop(h, r.win, [dest EXCEPT ![i + 1] = r.val],
                                i + 1, n, Add32(offset, N32(4)))
         IN  [rest EXCEPT
                !.reads = <<[offset |-> offset, val |-> r.val]>> \o @]

\* viommu_ccopy without the test of length % 4
viommu_ccopy_NoAlignTest(h, w, dest, length, offset) ==
    ccopy_loop(h, w, dest, 0, length \div 4, offset)

\* viommu_ccopy: length is the byte count, dest a sequence of u32
viommu_ccopy(h, w, dest, length, offset) ==
    IF length % 4 # 0
      THEN [dest |-> dest, win |-> w, reads |-> <<>>]
      ELSE ccopy_loop(h, w, dest, 0, length \div 4, offset)

----------------------------------------------------------------------------
(* Topology table decoder: the part of viommu_parse_topology before the    *)
(* lock                                                                    *)

\* a kzalloc'ed entry
ZeroEntry == [k \in 1..(EntrySize \div 4) |-> Z32]

\* CopyItems with the cursor advanced by the bytes copied
RECURSIVE CopyItems_AdvanceByRead(_, _, _, _, _, _, _)
CopyItems_AdvanceByRead(h, w, cfg, i, num_items, item_length, offset) ==
    IF i >= num_items THEN [cfg |-> cfg, win |-> w]
    ELSE LET read_length == IF Lt32(item_length, N32(EntrySize))
                              THEN Int32(item_length) ELSE EntrySize
             c == viommu_ccopy(h, w, ZeroEntry, read_length, offset)
         IN  CopyItems_AdvanceByRead(h, c.win, Append(cfg, c.dest), i + 1,
                                     num_items, item_length,
                                     Add32(offset, N32(read_length)))

RECURSIVE CopyItems(_, _, _, _, _, _, _)
CopyItems(h, w, cfg, i, num_items, item_length, offset) ==
    IF i >= num_items THEN [cfg |-> cfg, win |-> w]
    ELSE LET read_length == IF Lt32(item_length, N32(EntrySize))
                              THEN Int32(item_length) ELSE EntrySize
             c == viommu_ccopy(h, w, ZeroEntry, read_length, offset)
         IN  CopyItems(h, c.win, Append(cfg, c.dest), i + 1, num_items,
                       item_length, Add32(offset, item_length))

\* Decode with item_length left out of the zero test
Decode_NoItemLengthTest(h, w) ==
    LET r1 == readl_fn(h, w, N32(TopoOffsetOff))
        r2 == readl_fn(h, r1.win, N32(TopoItemLengthOff))
        r3 == readl_fn(h, r2.win, N32(TopoNumItemsOff))
    IN  IF IsZero32(r1.val) \/ IsZero32(r3.val)
          THEN [table |-> FALSE, num_items |-> 0, cfg |-> <<>>, win |-> r3.win]
          ELSE LET c == CopyItems(h, r3.win, <<>>, 0, Int32(r3.val),
                                  r2.val, r1.val)
               IN  [table |-> TRUE, num_items |-> Int32(r3.val),
                    cfg |-> c.cfg, win |-> c.win]

\* the header reads, the zero test and the copy loop
Decode(h, w) ==
    LET r1 == readl_fn(h, w, N32(TopoOffsetOff))
        r2 == readl_fn(h, r1.win, N32(TopoItemLengthOff))
        r3 == readl_fn(h, r2.win, N32(TopoNumItemsOff))
        offset == r1.val
        item_length == r2.val
        num_items == r3.val
    IN  IF IsZero32(offset) \/ IsZero32(num_items) \/ IsZero32(item_length)
          THEN [table |-> FALSE, num_items |-> 0, cfg |-> <<>>, win |-> r3.win]
          ELSE LET c == CopyItems(h, r3.win, <<>>, 0, Int32(num_items),
                                  item_length, offset)
               IN  [table |-> TRUE, num_items |-> Int32(num_items),
                    cfg |-> c.cfg, win |-> c.win]

----------------------------------------------------------------------------
(* Devices *)

NULL == "NULL"

NoMem == "nomem"

\* struct device as the resolver sees it: the bus, for a PCI device
\* pci_domain_nr(pdev->bus) and pci_dev_id(pdev), for a platform device the
\* start of platform_get_resource(pdev, IORESOURCE_MEM, 0) as <<lo, hi>>
\* u32 halves of the u64, and dev->fwnode
DevInfo ==
    [ vA |-> [bus |-> "pci", domain |-> 0, devid |-> 8, mem |-> NoMem,
              fwnode |-> "fwA"],
      vB |-> [bus |-> "platform", domain |-> 0, devid |-> 0,
              mem |-> <<N32(40960), Z32>>, fwnode |-> NULL],
      e0 |-> [bus |-> "pci", domain |-> 0, devid |-> 0, mem |-> NoMem,
              fwnode |-> NULL],
      e1 |-> [bus |-> "pci", domain |-> 0, devid |-> 11, mem |-> NoMem,
              fwnode |-> NULL],
      e2 |-> [bus |-> "pci", domain |-> 0, devid |-> 16, mem |-> NoMem,
              fwnode |-> NULL],
      e3 |-> [bus |-> "pci", domain |-> 1, devid |-> 11, mem |-> NoMem,
              fwnode |-> NULL],
      e4 |-> [bus |-> "pci", domain |-> 0, devid |-> 32, mem |-> NoMem,
              fwnode |-> NULL],
      p0 |-> [bus |-> "platform", domain |-> 0, devid |-> 0,
              mem |-> <<Z32, Z32>>, fwnode |-> NULL],
      p1 |-> [bus |-> "platform", domain |-> 0, devid |-> 0,
              mem |-> <<N32(45056), Z32>>, fwnode |-> NULL],
      p2 |-> [bus |-> "platform", domain |-> 0, devid |-> 0,
              mem |-> <<N32(45056), N32(1)>>, fwnode |-> NULL],
      p3 |-> [bus |-> "platform", domain |-> 0, devid |-> 0, mem |-> NoMem,
              fwnode |-> NULL],
      o1 |-> [bus |-> "other", domain |-> 0, devid |-> 0, mem |-> NoMem,
              fwnode |-> NULL] ]

Devs == DOMAIN DevInfo

dev_is_pci(d) == DevInfo[d].bus = "pci"

dev_is_platform(d) == DevInfo[d].bus = "platform"

----------------------------------------------------------------------------
(* Topology entries: union viommu_topo_cfg as the four u32 the decoder     *)
(* stored                                                                  *)

VIRTIO_IOMMU_TOPO_PCI_RANGE == 1
VIRTIO_IOMMU_TOPO_ENDPOINT == 2

\* le16_to_cpu(cfg->type)
cfg_type(cfg) == cfg[1][2]

\* cfg->pci.hierarchy, .requester_start, .requester_end, .endpoint_start
pci_hierarchy(cfg) == cfg[2]
pci_requester_start(cfg) == cfg[3][2]
pci_requester_end(cfg) == cfg[3][1]
pci_endpoint_start(cfg) == cfg[4]

\* cfg->ep.endpoint and cfg->ep.address (as <<lo, hi>>)
ep_endpoint(cfg) == cfg[2]
ep_address(cfg) == <<cfg[3], cfg[4]>>

\* viommu_parse_pci with devid < end in place of devid <= end
viommu_parse_pci_ExclusiveEnd(d, cfg, epid) ==
    LET devid == DevInfo[d].devid
        start == N32(pci_requester_start(cfg))
        end == N32(pci_requester_end(cfg))
    IN  IF cfg_type(cfg) = VIRTIO_IOMMU_TOPO_PCI_RANGE
           /\ N32(DevInfo[d].domain) = pci_hierarchy(cfg)
           /\ Le32(start, N32(devid)) /\ Lt32(N32(devid), end)
          THEN [found |-> TRUE,
                epid |-> Add32(Sub32(N32(devid), start),
                               pci_endpoint_start(cfg))]
          ELSE [found |-> FALSE, epid |-> epid]

\* viommu_parse_pci without the test of the type
viommu_parse_pci_NoTypeTest(d, cfg, epid) ==
    LET devid == DevInfo[d].devid
        start == N32(pci_requester_start(cfg))
        end == N32(pci_requester_end(cfg))
    IN  IF N32(DevInfo[d].domain) = pci_hierarchy(cfg)
           /\ Le32(start, N32(devid)) /\ Le32(N32(devid), end)
          THEN [found |-> TRUE,
                epid |-> Add32(Sub32(N32(devid), start),
                               pci_endpoint_start(cfg))]
          ELSE [found |-> FALSE, epid |-> epid]

\* viommu_parse_pci: found, and *epid (left as it was when nothing matches)
viommu_parse_pci(d, cfg, epid) ==
    LET devid == DevInfo[d].devid
        type == cfg_type(cfg)
        start == N32(pci_requester_start(cfg))
        end == N32(pci_requester_end(cfg))
        domain == pci_hierarchy(cfg)
        endpoint_start == pci_endpoint_start(cfg)
    IN  IF type = VIRTIO_IOMMU_TOPO_PCI_RANGE
           /\ N32(DevInfo[d].domain) = domain
           /\ Le32(start, N32(devid)) /\ Le32(N32(devid), end)
          THEN [found |-> TRUE,
                epid |-> Add32(Sub32(N32(devid), start), endpoint_start)]
          ELSE [found |-> FALSE, epid |-> epid]

\* viommu_parse_plat comparing the low 32 bits of the address only
viommu_parse_plat_LowWord(d, cfg, epid) ==
    IF cfg_type(cfg) = VIRTIO_IOMMU_TOPO_ENDPOINT
       /\ ep_address(cfg)[1] = DevInfo[d].mem[1]
      THEN [found |-> TRUE, epid |-> ep_endpoint(cfg)]
      ELSE [found |-> FALSE, epid |-> epid]

\* viommu_parse_plat
viommu_parse_plat(d, cfg, epid) ==
    LET type == cfg_type(cfg)
        addr == ep_address(cfg)
        endpoint_id == ep_endpoint(cfg)
    IN  IF type = VIRTIO_IOMMU_TOPO_ENDPOINT /\ addr = DevInfo[d].mem
          THEN [found |-> TRUE, epid |-> endpoint_id]
          ELSE [found |-> FALSE, epid |-> epid]

\* found = pci_dev ? viommu_parse_pci(...) : viommu_parse_plat(...)
MatchEntry(d, cfg, epid) ==
    IF dev_is_pci(d) THEN viommu_parse_pci(d, cfg, epid)
                     ELSE viommu_parse_plat(d, cfg, epid)

----------------------------------------------------------------------------
(* Bounds and the systems considered *)

\* viommu_spec objects that may be allocated in one run
MaxTables == 2

\* threads that call into the module
Threads == {"t1", "t2"}

\* the ops the driver bound to a transport registers for it
DriverOps == [vA |-> "opsA", vB |-> "opsB"]

\* a PciRange / an Endpoint entry as the device stores it
PciRangeWords(hierarchy, start, end, endpoint_start) ==
    << <<0, VIRTIO_IOMMU_TOPO_PCI_RANGE>>, N32(hierarchy), <<end, start>>,
       N32(endpoint_start) >>

EndpointWords(address, endpoint) ==
    << <<0, VIRTIO_IOMMU_TOPO_ENDPOINT>>, N32(endpoint), address[1],
       address[2] >>

\* the window capability before anything programmed it
Win0 == [bar |-> 0, length |-> Z32, offset |-> Z32]

\* vA: a virtio-iommu behind PCI whose table is the two ranges
\* {domain 0, 0x0008..0x000F -> 100} and {domain 0, 0x0010..0x001F -> 200}
HwA ==
    [reader |-> "pci",
     vndr |-> << "COMMON_CFG", "DEVICE_CFG", "PCI_CFG" >>,
     common |-> [bar |-> 4, length |-> N32(56), offset |-> Z32],
     pci_cfg |-> [bar |-> 0, length |-> Z32, offset |-> Z32],
     features |-> {"TOPOLOGY"},
     cap |-> [bar |-> 4, length |-> N32(256), offset |-> N32(4096)],
     other |-> 238,
     hdr |-> [offset |-> N32(64), item_length |-> N32(16),
              num_items |-> N32(2)],
     base |-> 64,
     words |-> PciRangeWords(0, 8, 15, 100) \o PciRangeWords(0, 16, 31, 200)]

\* vB: a virtio-mmio virtio-iommu whose table is the range
\* {domain 0, 0x0008..0x000B -> 500} and the endpoint {p1's address -> 7}
HwB ==
    [reader |-> "mmio",
     name |-> "virtio-mmio",
     mem |-> TRUE,
     id |-> "VIRTIO_ID_IOMMU",
     features |-> {"TOPOLOGY"},
     cap |-> [bar |-> 0, length |-> Z32, offset |-> Z32],
     other |-> 0,
     hdr |-> [offset |-> N32(64), item_length |-> N32(16),
              num_items |-> N32(2)],
     base |-> 64,
     words |-> PciRangeWords(0, 8, 11, 500)
               \o EndpointWords(DevInfo["p1"].mem, 7)]

Transports == {"vA", "vB"}

\* vB with another header and table
Mmio(offset, item_length, num_items, words) ==
    [HwB EXCEPT !.hdr = [offset |-> offset, item_length |-> N32(item_length),
                         num_items |-> N32(num_items)],
                !.words = words]

\* words a newer device appends to an item
Trailer == << <<43690, 43690>>, <<48059, 48059>> >>

\* an item of a type this decoder does not know, laid out like a range that
\* covers every device of domain 0
UnknownWords == << <<0, 3>>, Z32, <<65535, 0>>, N32(900) >>

\* headers of vB with a zero in one field
ZeroHeaderVariants ==
    { Mmio(Z32, 16, 2, HwB.words),
      Mmio(N32(64), 0, 2, HwB.words),
      Mmio(N32(64), 16, 0, HwB.words) }

\* an Endpoint entry whose words, read as a range, cover requester 0..31 of
\* domain 0, and a PciRange entry whose words, read as an endpoint, hold
\* the address of p1
EndpointLikeRange == EndpointWords(<< <<31, 0>>, N32(300) >>, 0)

RangeLikeEndpoint == << <<0, VIRTIO_IOMMU_TOPO_PCI_RANGE>>, N32(5),
                        DevInfo["p1"].mem[1], DevInfo["p1"].mem[2] >>

\* a table none of whose entries may match a PCI device, and whose last
\* entry only matches p1
UnmatchedTable ==
    Mmio(N32(64), 16, 5,
         UnknownWords \o << Z32, Z32, Z32, Z32 >> \o EndpointLikeRange
         \o RangeLikeEndpoint \o EndpointWords(DevInfo["p1"].mem, 7))

\* other tables vB may hold: items shorter and longer than an entry, item
\* lengths that are no multiple of 4, several entries that match the same
\* device, and entries that are unknown or all zero
MmioVariants ==
    { Mmio(N32(64), 8, 2,
           << <<0, 1>>, Z32, <<0, 2>>, N32(7) >>),
      Mmio(N32(64), 24, 2,
           PciRangeWords(0, 8, 11, 500) \o Trailer
           \o EndpointWords(DevInfo["p1"].mem, 7) \o Trailer),
      Mmio(N32(64), 6, 2, HwB.words),
      Mmio(N32(64), 18, 2,
           PciRangeWords(0, 8, 11, 500) \o EndpointWords(DevInfo["p1"].mem, 7)
           \o << <<4660, 22136>> >>),
      Mmio(N32(64), 16, 4,
           PciRangeWords(0, 0, 31, 600) \o PciRangeWords(0, 8, 11, 500)
           \o EndpointWords(DevInfo["p1"].mem, 7)
           \o EndpointWords(DevInfo["p1"].mem, 9)),
      UnmatchedTable }

\* other PCI transports: a device config capability that ends inside the
\* table, and a table offset near 2^32
PciVariants ==
    { [HwA EXCEPT !.cap.length = N32(80)],
      [HwA EXCEPT !.hdr.offset = <<65535, 65520>>] }

\* PCI transports whose probe stops before the decoder: one of the three
\* capabilities is missing, the common structure lies in a reserved BAR or
\* is too short for the feature registers, or the feature bit is clear
PciProbeVariants ==
    { [HwA EXCEPT !.vndr = << "DEVICE_CFG", "PCI_CFG" >>],
      [HwA EXCEPT !.vndr = << "COMMON_CFG", "PCI_CFG" >>],
      [HwA EXCEPT !.vndr = << "COMMON_CFG", "DEVICE_CFG" >>],
      [HwA EXCEPT !.common.bar = 6],
      [HwA EXCEPT !.common.length = N32(4)],
      [HwA EXCEPT !.features = {"OTHER"}] }

\* platform devices whose notifier stops before the decoder: the feature
\* bit is clear, the device is no virtio-iommu, no virtio-mmio device, or
\* has no memory resource
MmioProbeVariants ==
    { [HwB EXCEPT !.features = {"OTHER"}],
      [HwB EXCEPT !.id = "VIRTIO_ID_NET"],
      [HwB EXCEPT !.name = "serial8250"],
      [HwB EXCEPT !.mem = FALSE] }

\* capabilities and offsets the reader is called with on its own: the
\* structure at the start, in the middle and near the top of the BAR's
\* 32-bit offsets, and reads inside, across and behind its end; and the
\* structure that ends with the last byte of the BAR's 32-bit offsets
ReaderCaps ==
    { [bar |-> 4, offset |-> o, length |-> n] :
        o \in {N32(256), N32(4096), <<65535, 61440>>},
        n \in {N32(4), N32(80), N32(256)} }
    \cup { [bar |-> 4, offset |-> <<65535, 65280>>, length |-> N32(256)] }

ReadOffsets ==
    { Z32, N32(4), N32(76), N32(78), N32(80), N32(252), N32(253), N32(256),
      N32(4096), <<65535, 65520>>, <<65535, 65532>> }

\* what viommu_ccopy is called with on its own: a destination that is
\* zeroed or holds earlier data, and byte counts that are and are not
\* multiples of 4
CcopyDests == { <<Z32, Z32, Z32, Z32>>,
                <<N32(4369), N32(8738), N32(13107), N32(17476)>> }

CcopyLengths == {0, 2, 4, 6, 8, 15, 16}

CcopyOffsets == { N32(64), N32(72), N32(248), <<65535, 65532>> }

\* the devices probed in one run
ProbeSets ==
    { {"e1", "e2"}, {"e1", "vA"}, {"p1", "e1"}, {"vA", "vB"}, {"p1", "p3"},
      {"e3", "o1"}, {"e4", "p2"} }

\* the devices probed in a run whose calls interleave
ConcurrentProbeSets == { {"e1", "vA"}, {"p1", "p3"}, {"vA", "vB"} }

\* the systems whose calls interleave: the hardware of the two transports
\* and the devices probed
Systems ==
    { [hw |-> [vA |-> HwA, vB |-> HwB], present |-> P] :
        P \in ConcurrentProbeSets }
    \cup { [hw |-> [vA |-> HwA, vB |-> h], present |-> {"e1", "p1"}] :
        h \in ZeroHeaderVariants }
    \cup { [hw |-> [vA |-> [HwA EXCEPT !.features = {"OTHER"}],
                    vB |-> [HwB EXCEPT !.features = {"OTHER"}]],
            present |-> {"e1", "p1"}] }

ReaderSystems ==
    { [hw |-> [vA |-> [HwA EXCEPT !.cap = c], vB |-> HwB], present |-> {}] :
        c \in ReaderCaps }

\* further systems for calls made one after the other
VariantSystems ==
    { [hw |-> [vA |-> HwA, vB |-> HwB], present |-> P] : P \in ProbeSets }
    \cup
    { [hw |-> [vA |-> HwA, vB |-> h], present |-> {"e1", "p1"}] :
        h \in MmioVariants }
    \cup { [hw |-> [vA |-> h, vB |-> HwB], present |-> {"e1", "e2"}] :
        h \in PciVariants }
    \cup { [hw |-> [vA |-> HwA, vB |-> UnmatchedTable],
            present |-> {"e0", "p0"}] }
    \cup { [hw |-> [vA |-> h, vB |-> HwB], present |-> {"e1"}] :
        h \in PciProbeVariants }
    \cup { [hw |-> [vA |-> HwA, vB |-> h], present |-> {"p1"}] :
        h \in MmioProbeVariants }

----------------------------------------------------------------------------
(* The registry: LIST_HEAD(viommus), node 0, and the specs linked into it  *)

NIL == -1

NoFwspec == [ops |-> NULL, fwnode |-> NULL, ids |-> <<>>, set |-> FALSE]

Idle == [op |-> "none"]

NoDefer == [node |-> NIL, epid |-> "none", ops |-> NULL]

\* the nodes list_for_each_entry visits from node n on
RECURSIVE Walk(_, _)
Walk(n, fuel) ==
    IF n = 0 \/ n = NIL \/ fuel = 0 THEN <<>>
    ELSE <<n>> \o Walk(next[n], fuel - 1)

\* the list walked from the tail, as list_for_each_entry_reverse would
RECURSIVE WalkBack(_, _)
WalkBack(n, fuel) ==
    IF n = 0 \/ n = NIL \/ fuel = 0 THEN <<>>
    ELSE <<n>> \o WalkBack(prev[n], fuel - 1)

ScanOrder_Reverse == WalkBack(prev[0], Len(heap))

ScanOrder == Walk(next[0], Len(heap))

\* the loop over the entries without its break
RECURSIVE ScanEntries_NoBreak(_, _, _, _)
ScanEntries_NoBreak(d, spec, i, epid) ==
    IF i >= spec.num_items THEN [found |-> FALSE, epid |-> epid]
    ELSE LET m == MatchEntry(d, spec.cfg[i + 1], epid)
         IN  IF i + 1 >= spec.num_items THEN m
             ELSE ScanEntries_NoBreak(d, spec, i + 1, m.epid)

\* for (i = 0; i < viommu_spec->num_items; i++) ... if (found) break;
RECURSIVE ScanEntries(_, _, _, _)
ScanEntries(d, spec, i, epid) ==
    IF i >= spec.num_items THEN [found |-> FALSE, epid |-> epid]
    ELSE LET m == MatchEntry(d, spec.cfg[i + 1], epid)
         IN  IF m.found THEN m ELSE ScanEntries(d, spec, i + 1, m.epid)

\* list_for_each_entry(viommu_spec, &viommus, list) of virt_iommu_setup
RECURSIVE ScanTables(_, _, _)
ScanTables(d, order, epid) ==
    IF order = <<>>
      THEN [found |-> FALSE, epid |-> epid, viommu_ops |-> NULL,
            viommu_fwnode |-> "uninit", viommu_dev |-> "uninit",
            node |-> NIL]
    ELSE LET spec == heap[Head(order)]
             m == ScanEntries(d, spec, 0, epid)
         IN  IF m.found
               THEN [found |-> TRUE, epid |-> m.epid,
                     viommu_ops |-> spec.ops, viommu_fwnode |-> spec.fwnode,
                     viommu_dev |-> spec.dev, node |-> Head(order)]
               ELSE ScanTables(d, Tail(order), m.epid)

\* the lookup without the test of viommu_spec->dev
\* FindByDev without the break: the last spec owned by d
FindByDev_NoBreak(d, order) ==
    LET hits == {k \in 1..Len(order) : heap[order[k]].dev = d}
    IN  IF hits = {} THEN NIL
        ELSE order[CHOOSE k \in hits : \A j \in hits : j <= k]

FindByDev_AnyOwner(d, order) == IF order = <<>> THEN NIL ELSE Head(order)

\* list_for_each_entry of virt_set_iommu_ops: the first spec owned by d
RECURSIVE FindByDev(_, _)
FindByDev(d, order) ==
    IF order = <<>> THEN NIL
    ELSE IF heap[Head(order)].dev = d THEN Head(order)
    ELSE FindByDev(d, Tail(order))

\* the value of viommus_lock when no thread holds it
Unlocked == "unlocked"

\* a lock that never waits
mutex_lock_NoWait(t) == mutex' = t

mutex_lock(t) == mutex = Unlocked /\ mutex' = t

\* an unlock that is forgotten
mutex_unlock_Forgotten(t) == mutex' = mutex

mutex_unlock(t) == mutex' = Unlocked

\* no other thread is in a call for device d (the driver core probes a
\* device, and the bus code adds it, under that device's lock)
DevFree(d) ==
    \A u \in Threads :
       loc[u].op \in {"parse", "probe", "configure"} => loc[u].dev # d

----------------------------------------------------------------------------
(* The probes of the two transports *)

\* bar, length and offset of the vendor capability of type type
VndrCap(h, type) ==
    CASE type = "COMMON_CFG" -> h.common
      [] type = "DEVICE_CFG" -> h.cap
      [] OTHER                   -> h.pci_cfg

\* viommu_pci_find_capability: the position of the first vendor capability
\* of type type that is not in a reserved BAR, 0 when there is none,
\* and *cap
viommu_pci_find_capability(h, type) ==
    LET hits == { pos \in 1..Len(h.vndr) :
                    /\ h.vndr[pos] = type
                    /\ ~(type # "PCI_CFG" /\ VndrCap(h, type).bar > 5) }
    IN  IF hits = {}
          THEN [pos |-> 0, cap |-> [bar |-> 0, length |-> Z32, offset |-> Z32]]
          ELSE [pos |-> CHOOSE pos \in hits : \A q \in hits : pos <= q,
                cap |-> VndrCap(h, type)]

\* offsetof(struct virtio_pci_common_cfg, field)
CommonCfgOff(field) ==
    CASE field = "device_feature_select" -> N32(0)
      [] field = "device_feature"        -> N32(4)

\* the feature bits the data register returns for window w: word 0 of the
\* device's features once the window selects device_feature
FeatureReg(h, w) ==
    IF w.bar = h.common.bar
          /\ w.offset = Add32(h.common.offset, CommonCfgOff("device_feature"))
      THEN h.features ELSE {}

\* viommu_pci_parse_topology without the test of the feature bit
viommu_pci_parse_topology_NoFeatureTest(h, w) ==
    LET common == viommu_pci_find_capability(h, "COMMON_CFG")
        dev_cfg == viommu_pci_find_capability(h, "DEVICE_CFG")
        pci_cfg == viommu_pci_find_capability(h, "PCI_CFG")
        s1 == viommu_pci_switch_cfg(common.cap, w, N32(4),
                                    CommonCfgOff("device_feature_select"))
        s2 == viommu_pci_switch_cfg(common.cap, s1.win, N32(4),
                                    CommonCfgOff("device_feature"))
    IN  IF common.pos = 0 \/ dev_cfg.pos = 0 \/ pci_cfg.pos = 0
          THEN [calls |-> FALSE, win |-> w]
        ELSE IF s1.err # "0" THEN [calls |-> FALSE, win |-> w]
        ELSE IF s2.err # "0" THEN [calls |-> FALSE, win |-> s1.win]
        ELSE [calls |-> TRUE, win |-> s2.win]

\* viommu_pci_parse_topology up to the call of the decoder: whether the
\* decoder is called, and the window left behind
viommu_pci_parse_topology(h, w) ==
    LET common == viommu_pci_find_capability(h, "COMMON_CFG")
        dev_cfg == viommu_pci_find_capability(h, "DEVICE_CFG")
        pci_cfg == viommu_pci_find_capability(h, "PCI_CFG")
        s1 == viommu_pci_switch_cfg(common.cap, w, N32(4),
                                    CommonCfgOff("device_feature_select"))
        s2 == viommu_pci_switch_cfg(common.cap, s1.win, N32(4),
                                    CommonCfgOff("device_feature"))
    IN  IF common.pos = 0 \/ dev_cfg.pos = 0 \/ pci_cfg.pos = 0
          THEN [calls |-> FALSE, win |-> w]
        ELSE IF s1.err # "0" THEN [calls |-> FALSE, win |-> w]
        ELSE IF s2.err # "0" THEN [calls |-> FALSE, win |-> s1.win]
        ELSE IF "TOPOLOGY" \notin FeatureReg(h, s2.win)
          THEN [calls |-> FALSE, win |-> s2.win]
        ELSE [calls |-> TRUE, win |-> s2.win]

\* what the bus notifier is called with
NotifyActions == {"BUS_NOTIFY_ADD_DEVICE", "BUS_NOTIFY_DEL_DEVICE"}

\* viommu_platform_bus_notify up to the call of the decoder; mapped says
\* that devm_request_mem_region and devm_ioremap succeeded
viommu_platform_bus_notify(h, w, action, mapped) ==
    [calls |-> /\ action = "BUS_NOTIFY_ADD_DEVICE"
               /\ h.name = "virtio-mmio"
               /\ h.mem
               /\ mapped
               /\ h.id = "VIRTIO_ID_IOMMU"
               /\ "TOPOLOGY" \in h.features,
     win |-> w]

\* the probe of transport d that the bus runs when the device is added
Probe(d, action, mapped) ==
    IF hw[d].reader = "pci"
      THEN viommu_pci_parse_topology(hw[d], win[d])
      ELSE viommu_platform_bus_notify(hw[d], win[d], action, mapped)

\* the probe returns without calling viommu_parse_topology
ProbeReturn(t, d, action, mapped) ==
    /\ pc[t] = "idle"
    /\ d \in Transports
    /\ DevFree(d)
    /\ ~Probe(d, action, mapped).calls
    /\ win' = [win EXCEPT ![d] = Probe(d, action, mapped).win]
    /\ pc' = [pc EXCEPT ![t] = "ret"]
    /\ loc' = [loc EXCEPT ![t] = [op |-> "probe", dev |-> d]]
    /\ UNCHANGED <<defer, hw, present, heap, next, prev, mutex, fwspec>>

----------------------------------------------------------------------------
(* viommu_parse_topology(dev, readl_fn, ctx) *)

\* lines 150-180: the header, kzalloc (which may fail), the copy loop and
\* mutex_lock
ParseStart(t, d) ==
    /\ pc[t] = "idle"
    /\ d \in Transports
    /\ DevFree(d)
    /\ Len(heap) < MaxTables
    /\ \E pr \in {Probe(d, "BUS_NOTIFY_ADD_DEVICE", TRUE)} :
       \E dec \in {IF pr.calls THEN Decode(hw[d], pr.win) ELSE pr} :
           /\ pr.calls
           /\ win' = [win EXCEPT ![d] = dec.win]
           /\ \/ /\ ~dec.table
                 /\ pc' = [pc EXCEPT ![t] = "ret"]
                 /\ loc' = [loc EXCEPT ![t] =
                        [op |-> "parse", dev |-> d, node |-> NIL,
                         nxt |-> NIL, ret |-> "0"]]
                 /\ UNCHANGED <<heap, next, prev, mutex>>
              \/ /\ dec.table
                 /\ pc' = [pc EXCEPT ![t] = "ret"]
                 /\ loc' = [loc EXCEPT ![t] =
                        [op |-> "parse", dev |-> d, node |-> NIL,
                         nxt |-> NIL, ret |-> "-ENOMEM"]]
                 /\ UNCHANGED <<heap, next, prev, mutex>>
              \/ /\ dec.table
                 /\ heap' = Append(heap,
                        [dev |-> d, fwnode |-> NULL, ops |-> NULL,
                         num_items |-> dec.num_items, cfg |-> dec.cfg])
                 /\ next' = next @@ (Len(heap) + 1 :> NIL)
                 /\ prev' = prev @@ (Len(heap) + 1 :> NIL)
                 /\ mutex_lock(t)
                 /\ pc' = [pc EXCEPT ![t] = "add_a"]
                 /\ loc' = [loc EXCEPT ![t] =
                        [op |-> "parse", dev |-> d, node |-> Len(heap) + 1,
                         nxt |-> NIL, ret |-> "0"]]
    /\ UNCHANGED <<defer, hw, present, fwspec>>

\* line 181, list_add(new, head) is __list_add(new, head, head->next):
\* next->prev = new
ListAddA(t) ==
    /\ pc[t] = "add_a"
    /\ prev' = [prev EXCEPT ![next[0]] = loc[t].node]
    /\ loc' = [loc EXCEPT ![t] = [@ EXCEPT !.nxt = next[0]]]
    /\ pc' = [pc EXCEPT ![t] = "add_b"]
    /\ UNCHANGED <<defer, hw, present, win, heap, next, mutex, fwspec>>

\* new->next = head in place of the old first spec
ListAddB_DropsRest(t) ==
    /\ pc[t] = "add_b"
    /\ next' = [next EXCEPT ![loc[t].node] = 0]
    /\ prev' = [prev EXCEPT ![loc[t].node] = 0]
    /\ pc' = [pc EXCEPT ![t] = "add_c"]
    /\ UNCHANGED <<defer, hw, present, win, heap, mutex, fwspec, loc>>

\* new->next = next; new->prev = prev
ListAddB(t) ==
    /\ pc[t] = "add_b"
    /\ next' = [next EXCEPT ![loc[t].node] = loc[t].nxt]
    /\ prev' = [prev EXCEPT ![loc[t].node] = 0]
    /\ pc' = [pc EXCEPT ![t] = "add_c"]
    /\ UNCHANGED <<defer, hw, present, win, heap, mutex, fwspec, loc>>

\* prev->next = new
ListAddC(t) ==
    /\ pc[t] = "add_c"
    /\ next' = [next EXCEPT ![0] = loc[t].node]
    /\ pc' = [pc EXCEPT ![t] = "parse_unlock"]
    /\ UNCHANGED <<defer, hw, present, win, heap, prev, mutex, fwspec, loc>>

\* lines 182-184
ParseUnlock(t) ==
    /\ pc[t] = "parse_unlock"
    /\ mutex_unlock(t)
    /\ pc' = [pc EXCEPT ![t] = "ret"]
    /\ UNCHANGED <<defer, hw, present, win, heap, next, prev, fwspec, loc>>

----------------------------------------------------------------------------
(* virt_set_iommu_ops(dev, ops) *)

\* line 469
SetOpsLock(t, d, ops) ==
    /\ pc[t] = "idle"
    /\ d \in Transports
    /\ mutex_lock(t)
    /\ pc' = [pc EXCEPT ![t] = "set_scan"]
    /\ loc' = [loc EXCEPT ![t] = [op |-> "set_ops", dev |-> d, ops |-> ops]]
    /\ UNCHANGED <<defer, hw, present, win, heap, next, prev, fwspec>>

\* line 474 with dev->fwnode stored whatever ops is
spec_fwnode_Unconditional(d, ops) == DevInfo[d].fwnode

\* line 474: ops ? dev->fwnode : NULL
spec_fwnode(d, ops) == IF ops # NULL THEN DevInfo[d].fwnode ELSE NULL

\* lines 470-477; track: whether the history defer is kept
SetOpsScan(t, track) ==
    /\ pc[t] = "set_scan"
    /\ LET n == FindByDev(loc[t].dev, ScanOrder)
           ops == loc[t].ops
       IN  heap' = IF n = NIL THEN heap
                   ELSE [heap EXCEPT ![n] =
                            [@ EXCEPT !.ops = ops,
                                      !.fwnode = spec_fwnode(loc[t].dev, ops)]]
    /\ defer' = LET n == FindByDev(loc[t].dev, ScanOrder)
                 IN  [d \in Devs |->
                        IF track /\ loc[t].ops # NULL /\ defer[d].node # NIL
                           /\ defer[d].node = n
                          THEN [defer[d] EXCEPT !.ops = loc[t].ops]
                          ELSE defer[d]]
    /\ mutex_unlock(t)
    /\ pc' = [pc EXCEPT ![t] = "ret"]
    /\ UNCHANGED <<hw, present, win, next, prev, fwspec, loc>>

----------------------------------------------------------------------------
(* virt_dma_configure(dev) and virt_iommu_setup(dev) *)

\* iommu_fwspec_init(dev, fwnode, ops) when it succeeds
iommu_fwspec_init(fw, fwnode, ops) ==
    [ops |-> ops, fwnode |-> fwnode, ids |-> fw.ids, set |-> TRUE]

\* iommu_fwspec_add_ids(dev, ids, n)
iommu_fwspec_add_ids(fw, ids) == [fw EXCEPT !.ids = @ \o ids]

\* DmaConfigureTail returning every error of virt_iommu_setup
DmaConfigureTail_PropagateError(l, res, setup) ==
    LET is_err == res \in {"Deferred", "Error"}
    IN  [l EXCEPT !.res = res, !.setup = setup,
                  !.iommu_ops = IF is_err THEN NULL ELSE setup,
                  !.ret = IF setup = "ERR(-EPROBE_DEFER)"
                            THEN "-EPROBE_DEFER"
                          ELSE IF is_err THEN "-ENOMEM" ELSE "0"]

\* lines 436-456 of virt_dma_configure: from what virt_iommu_setup returned
\* (res names the return statement taken, setup the pointer returned) to
\* the ops handed to arch_setup_dma_ops and the value returned
DmaConfigureTail(l, res, setup) ==
    LET is_err == res \in {"Deferred", "Error"}
    IN  [l EXCEPT !.res = res, !.setup = setup,
                  !.iommu_ops = IF is_err THEN NULL ELSE setup,
                  !.ret = IF setup = "ERR(-EPROBE_DEFER)"
                            THEN "-EPROBE_DEFER" ELSE "0"]

\* the locals of virt_iommu_setup and virt_dma_configure; the last three
\* fields are history: the fwspec and the defer record the call started
\* with, and the node of the spec the scan took its result from
ConfigureLocals(d) ==
    [op |-> "configure", dev |-> d, found |-> FALSE, epid |-> "uninit",
     viommu_ops |-> NULL, viommu_fwnode |-> "uninit",
     viommu_dev |-> "uninit", res |-> "none", setup |-> NULL,
     iommu_ops |-> NULL, ret |-> "none",
     fw0 |-> fwspec[d], armed |-> defer[d], node |-> NIL]

\* SetupDecision without the test of line 407
SetupDecision_NoOpsTest(found, viommu_dev, viommu_ops, d) ==
    IF ~found THEN "NULL"
    ELSE IF viommu_dev = d THEN "NULL"
    ELSE "INIT"

\* SetupDecision without the test of line 404
SetupDecision_NoSelfTest(found, viommu_dev, viommu_ops, d) ==
    IF ~found THEN "NULL"
    ELSE IF viommu_ops = NULL THEN "DEFER"
    ELSE "INIT"

\* SetupDecision with the test of line 407 inverted
SetupDecision_DeferWhenBound(found, viommu_dev, viommu_ops, d) ==
    IF ~found THEN "NULL"
    ELSE IF viommu_dev = d THEN "NULL"
    ELSE IF viommu_ops # NULL THEN "DEFER"
    ELSE "INIT"

\* lines 400-408 of virt_iommu_setup: return NULL, return
\* ERR_PTR(-EPROBE_DEFER), or go on to iommu_fwspec_init
SetupDecision(found, viommu_dev, viommu_ops, d) ==
    IF ~found THEN "NULL"
    ELSE IF viommu_dev = d THEN "NULL"
    ELSE IF viommu_ops = NULL THEN "DEFER"
    ELSE "INIT"

\* the test of line 367 made on the number of IDs instead of the ops
fwspec_has_ops_SeveralIds(fw) == fw.set /\ Len(fw.ids) > 1

\* the test of line 367 dropped
fwspec_has_ops_Ignored(fw) == FALSE

\* line 367: fwspec && fwspec->ops
fwspec_has_ops(fw) == fw.set /\ fw.ops # NULL

\* line 435 and lines 354-382 of virt_iommu_setup
ConfigureStart(t, d) ==
    /\ pc[t] = "idle"
    /\ d \in present
    /\ DevFree(d)
    /\ LET fw == fwspec[d]
           l == ConfigureLocals(d)
       IN  IF fwspec_has_ops(fw)
             THEN /\ loc' = [loc EXCEPT ![t] =
                        DmaConfigureTail(l, "AlreadyTranslated", fw.ops)]
                  /\ pc' = [pc EXCEPT ![t] = "ret"]
                  /\ UNCHANGED mutex
           ELSE IF dev_is_pci(d)
                   \/ (dev_is_platform(d) /\ DevInfo[d].mem # NoMem)
             THEN /\ loc' = [loc EXCEPT ![t] = l]
                  /\ mutex_lock(t)
                  /\ pc' = [pc EXCEPT ![t] = "setup_scan"]
           ELSE /\ loc' = [loc EXCEPT ![t] =
                        DmaConfigureTail(l, "NotApplicable", NULL)]
                /\ pc' = [pc EXCEPT ![t] = "ret"]
                /\ UNCHANGED mutex
    /\ UNCHANGED <<defer, hw, present, win, heap, next, prev, fwspec>>

\* lines 383-399
SetupScan(t) ==
    /\ pc[t] = "setup_scan"
    /\ LET r == ScanTables(loc[t].dev, ScanOrder, loc[t].epid)
       IN  loc' = [loc EXCEPT ![t] =
                [@ EXCEPT !.found = r.found, !.epid = r.epid,
                          !.viommu_ops = r.viommu_ops,
                          !.viommu_fwnode = r.viommu_fwnode,
                          !.viommu_dev = r.viommu_dev, !.node = r.node]]
    /\ mutex_unlock(t)
    /\ pc' = [pc EXCEPT ![t] = "setup_post"]
    /\ UNCHANGED <<defer, hw, present, win, heap, next, prev, fwspec>>

\* lines 400-416, then the rest of virt_dma_configure; track: whether the
\* history defer is kept
SetupPost(t, track) ==
    /\ pc[t] = "setup_post"
    /\ LET l == loc[t]
           d == l.dev
           dec == SetupDecision(l.found, l.viommu_dev, l.viommu_ops, d)
       IN  \/ /\ dec = "NULL"
              /\ loc' = [loc EXCEPT ![t] =
                     DmaConfigureTail(l, "NotApplicable", NULL)]
              /\ UNCHANGED <<fwspec, defer>>
           \/ /\ dec = "DEFER"
              /\ loc' = [loc EXCEPT ![t] =
                     DmaConfigureTail(l, "Deferred", "ERR(-EPROBE_DEFER)")]
              /\ defer' = IF track
                            THEN [defer EXCEPT ![d] =
                                    [node |-> l.node, epid |-> l.epid,
                                     ops |-> NULL]]
                            ELSE defer
              /\ UNCHANGED fwspec
           \/ /\ dec = "INIT"
              /\ loc' = [loc EXCEPT ![t] =
                     DmaConfigureTail(l, "Error", "ERR(-ENOMEM)")]
              /\ UNCHANGED <<fwspec, defer>>
           \/ /\ dec = "INIT"
              /\ fwspec' = [fwspec EXCEPT ![d] =
                     iommu_fwspec_add_ids(
                         iommu_fwspec_init(@, l.viommu_fwnode, l.viommu_ops),
                         <<l.epid>>)]
              /\ loc' = [loc EXCEPT ![t] =
                     DmaConfigureTail(l, "Translated", l.viommu_ops)]
              /\ UNCHANGED defer
    /\ pc' = [pc EXCEPT ![t] = "ret"]
    /\ UNCHANGED <<hw, present, win, heap, next, prev, mutex>>

\* one call through viommu_readl_fn, as viommu_parse_topology and
\* viommu_ccopy make it, with the window as the last call left it
ReadlCall(t, d, offset) ==
    /\ pc[t] = "idle"
    /\ LET r == readl_fn(hw[d], win[d], offset)
       IN  /\ win' = [win EXCEPT ![d] = r.win]
           /\ loc' = [loc EXCEPT ![t] =
                  [op |-> "readl", dev |-> d, offset |-> offset,
                   val |-> r.val, issued |-> r.issued,
                   accesses |-> r.accesses, win0 |-> win[d]]]
    /\ pc' = [pc EXCEPT ![t] = "ret"]
    /\ UNCHANGED <<defer, hw, present, heap, next, prev, mutex, fwspec>>

\* one call of viommu_ccopy
CcopyCall(t, d, dest, length, offset) ==
    /\ pc[t] = "idle"
    /\ LET c == viommu_ccopy(hw[d], win[d], dest, length, offset)
       IN  /\ win' = [win EXCEPT ![d] = c.win]
           /\ loc' = [loc EXCEPT ![t] =
                  [op |-> "ccopy", dev |-> d, dest0 |-> dest,
                   length |-> length, offset |-> offset,
                   dest |-> c.dest, reads |-> c.reads, win0 |-> win[d]]]
    /\ pc' = [pc EXCEPT ![t] = "ret"]
    /\ UNCHANGED <<defer, hw, present, heap, next, prev, mutex, fwspec>>

\* the call returns to its caller
Return(t) ==
    /\ pc[t] = "ret"
    /\ pc' = [pc EXCEPT ![t] = "idle"]
    /\ loc' = [loc EXCEPT ![t] = Idle]
    /\ UNCHANGED <<defer, hw, present, win, heap, next, prev, mutex, fwspec>>

----------------------------------------------------------------------------

InitWith(systems) ==
    /\ \E s \in systems : hw = s.hw /\ present = s.present
    /\ win = [d \in Transports |-> Win0]
    /\ heap = <<>>
    /\ next = (0 :> 0)
    /\ prev = (0 :> 0)
    /\ mutex = Unlocked
    /\ fwspec = [d \in Devs |-> NoFwspec]
    /\ pc = [t \in Threads |-> "idle"]
    /\ loc = [t \in Threads |-> Idle]
    /\ defer = [d \in Devs |-> NoDefer]

Init == InitWith(Systems)

InitSeq == InitWith(Systems \cup VariantSystems)

Step(t, track) ==
        \/ \E d \in Transports : \E action \in NotifyActions :
              \E mapped \in BOOLEAN : ProbeReturn(t, d, action, mapped)
        \/ \E d \in Transports : ParseStart(t, d)
        \/ ListAddA(t)
        \/ ListAddB(t)
        \/ ListAddC(t)
        \/ ParseUnlock(t)
        \/ \E d \in Transports :
              \E ops \in {DriverOps[d], NULL} : SetOpsLock(t, d, ops)
        \/ SetOpsScan(t, track)
        \/ \E d \in Devs : ConfigureStart(t, d)
        \/ SetupScan(t)
        \/ SetupPost(t, track)
        \/ Return(t)

\* calls of the reader alone, one after the other
InitReader == InitWith(ReaderSystems)

NextReader ==
    \/ \E d \in Transports : \E o \in ReadOffsets : ReadlCall("t1", d, o)
    \/ \E d \in Transports : \E dest \in CcopyDests :
          \E length \in CcopyLengths : \E o \in CcopyOffsets :
             CcopyCall("t1", d, dest, length, o)
    \/ Return("t1")

SpecReader == InitReader /\ [][NextReader]_vars

\* calls from any thread, interleaved
Next == \E t \in Threads : Step(t, FALSE)

Spec == Init /\ [][Next]_vars

\* one call after the other
NextSeq == Step("t1", TRUE)

SpecSeq == InitSeq /\ [][NextSeq]_vars

----------------------------------------------------------------------------
(* What the claims are stated with.  Under SpecSeq thread t1 makes every   *)
(* call, so the registry a call returns with is the one its scan saw.      *)

\* the call of thread t1 has reached its return
AtRet(op) == pc["t1"] = "ret" /\ loc["t1"].op = op

\* the device carried IOMMU ops when the call started
HadOps(l) == l.fw0.set /\ l.fw0.ops # NULL

\* the resolver's classification lets the device through to the scan
Scannable(d) ==
    dev_is_pci(d) \/ (dev_is_platform(d) /\ DevInfo[d].mem # NoMem)

\* the call of t1 is a resolution that scanned the registry
Scanned == AtRet("configure") /\ ~HadOps(loc["t1"])
           /\ Scannable(loc["t1"].dev)

\* device d matches some entry of spec
MatchesSpec(d, spec) ==
    \E i \in 1..spec.num_items : MatchEntry(d, spec.cfg[i], "uninit").found

\* the endpoint ID the lowest matching entry of spec gives device d
EpidIn(d, spec) ==
    LET hits == {i \in 1..spec.num_items :
                    MatchEntry(d, spec.cfg[i], "uninit").found}
        i0 == CHOOSE i \in hits : \A j \in hits : i <= j
    IN  MatchEntry(d, spec.cfg[i0], "uninit").epid

\* the specs of the registry that match d; node ids grow with insertion
Matching(d) == {n \in 1..Len(heap) : MatchesSpec(d, heap[n])}

Oldest(S) == CHOOSE n \in S : \A m \in S : n <= m

Newest(S) == CHOOSE n \in S : \A m \in S : n >= m

\* the first node in scan order that matches d, NIL if none does
FirstMatch(d) ==
    LET hits == {k \in 1..Len(ScanOrder) : MatchesSpec(d, heap[ScanOrder[k]])}
    IN  IF hits = {} THEN NIL
        ELSE ScanOrder[CHOOSE k \in hits : \A j \in hits : k <= j]

\* what a resolution that returned NULL must have left
IsNotApplicable(l) ==
    /\ l.res = "NotApplicable" /\ l.setup = NULL /\ l.ret = "0"
    /\ l.iommu_ops = NULL
    /\ fwspec[l.dev] = l.fw0

----------------------------------------------------------------------------
(* C1 *)

\* C1 as claimed: resolving a device that owns any table of the registry
\* yields NotApplicable and leaves the fwspec alone, whatever else matches.
C1_OwnerAlwaysNotApplicable ==
    (AtRet("configure")
       /\ \E n \in 1..Len(heap) : heap[n].dev = loc["t1"].dev)
    => IsNotApplicable(loc["t1"])

\* C1 as amended: resolving a device that carries no IOMMU ops yields
\* NotApplicable, with the fwspec untouched, whenever the first table in
\* scan order that has an entry matching the device is owned by it.
C1_SelfMatchNotApplicable ==
    (Scanned
       /\ FirstMatch(loc["t1"].dev) # NIL
       /\ heap[FirstMatch(loc["t1"].dev)].dev = loc["t1"].dev)
    => IsNotApplicable(loc["t1"])

\* a self-match while a table of another device matches the device too
C1_Witness ==
    /\ Scanned
    /\ loc["t1"].found /\ loc["t1"].viommu_dev = loc["t1"].dev
    /\ loc["t1"].res = "NotApplicable"
    /\ \E n \in Matching(loc["t1"].dev) : heap[n].dev # loc["t1"].dev

----------------------------------------------------------------------------
(* C2.  defer[d] keeps the table and endpoint ID of the last Deferred      *)
(* resolution of d, and the non-null ops virt_set_iommu_ops has stored in  *)
(* that table since; a resolution copies it to its local armed on entry.   *)

\* C2 as claimed, read generously: once a resolution of d was Deferred on
\* a table and virt_set_iommu_ops stored non-null ops in that table, every
\* later resolution of d hands out those ops with the same endpoint ID
\* (a later AlreadyTranslated with those ops and that ID in the fwspec, or
\* a failing iommu_fwspec_init, is not held against the claim).
C2_DeferredThenAlwaysTranslated ==
    LET l == loc["t1"]
    IN  (AtRet("configure") /\ l.armed.ops # NULL)
        => \/ /\ l.res = "Translated"
              /\ l.setup = l.armed.ops /\ l.epid = l.armed.epid
           \/ /\ l.res = "AlreadyTranslated"
              /\ l.setup = l.armed.ops
              /\ fwspec[l.dev].ids = <<l.armed.epid>>
           \/ l.res = "Error"

\* C2 as amended.  (a) A device without IOMMU ops whose first matching
\* table in scan order belongs to another device and has no ops resolves
\* to Deferred, fwspec untouched.  (b) After virt_set_iommu_ops stored
\* non-null ops in that table, a resolution of the device that finds the
\* table still first among the matching ones and still holding those ops
\* yields Translated with those ops and the same endpoint ID, recorded
\* once in the fwspec, unless iommu_fwspec_init fails; once the device
\* carries ops, a resolution returns the fwspec's ops and adds nothing.
C2_DeferredThenTranslatedWhileFirst ==
    LET l == loc["t1"]
        d == l.dev
        n == FirstMatch(d)
    IN  /\ (Scanned /\ n # NIL /\ heap[n].dev # d /\ heap[n].ops = NULL)
           => /\ l.res = "Deferred" /\ l.setup = "ERR(-EPROBE_DEFER)"
              /\ fwspec[d] = l.fw0
              /\ defer[d].node = n /\ defer[d].epid = EpidIn(d, heap[n])
        /\ (Scanned /\ l.armed.ops # NULL /\ n = l.armed.node
              /\ heap[n].ops = l.armed.ops)
           => \/ /\ l.res = "Translated"
                 /\ l.setup = l.armed.ops /\ l.epid = l.armed.epid
                 /\ fwspec[d].ops = l.armed.ops
                 /\ fwspec[d].fwnode = DevInfo[heap[n].dev].fwnode
                 /\ fwspec[d].ids = l.fw0.ids \o <<l.armed.epid>>
              \/ l.res = "Error" /\ fwspec[d] = l.fw0
        /\ (AtRet("configure") /\ HadOps(l))
           => /\ l.res = "AlreadyTranslated" /\ l.setup = l.fw0.ops
              /\ fwspec[d] = l.fw0

\* a device that was Deferred is Translated after the ops were registered
C2_Witness ==
    LET l == loc["t1"]
    IN  /\ Scanned /\ l.armed.ops # NULL
        /\ l.res = "Translated" /\ l.setup = l.armed.ops
        /\ l.epid = l.armed.epid

----------------------------------------------------------------------------
(* C3.  ParseStart allocates and takes the lock in one step, so node ids   *)
(* grow in the order of insertion.                                         *)

\* the result of the scan is the one spec n gives
ResultFrom(l, n) ==
    /\ l.found
    /\ l.viommu_dev = heap[n].dev
    /\ l.viommu_ops = heap[n].ops
    /\ l.viommu_fwnode = heap[n].fwnode
    /\ l.epid = EpidIn(l.dev, heap[n])

\* C3 as claimed: when two tables each hold an entry matching the device,
\* the result is taken from the table that was inserted first.
C3_FirstInsertedWins ==
    (Scanned /\ Matching(loc["t1"].dev) # {})
    => ResultFrom(loc["t1"], Oldest(Matching(loc["t1"].dev)))

\* C3 as amended: the registry is scanned from its head, where tables are
\* inserted, so the result is taken from the matching table that was
\* inserted last; with no matching table nothing is found.
C3_LastInsertedWins ==
    Scanned
    => IF Matching(loc["t1"].dev) = {}
         THEN ~loc["t1"].found
         ELSE ResultFrom(loc["t1"], Newest(Matching(loc["t1"].dev)))

\* two matching tables that give the device different endpoint IDs
C3_Witness ==
    LET M == Matching(loc["t1"].dev)
    IN  /\ Scanned /\ M # {}
        /\ Oldest(M) # Newest(M)
        /\ EpidIn(loc["t1"].dev, heap[Oldest(M)])
             # EpidIn(loc["t1"].dev, heap[Newest(M)])
        /\ heap[Oldest(M)].dev # heap[Newest(M)].dev

----------------------------------------------------------------------------
(* C4 *)

\* a header field as the reader of the transport returns it
HdrField(h, off) == readl_fn(h, Win0, N32(off)).val

HeaderNonZero(h) ==
    /\ ~IsZero32(HdrField(h, TopoOffsetOff))
    /\ ~IsZero32(HdrField(h, TopoItemLengthOff))
    /\ ~IsZero32(HdrField(h, TopoNumItemsOff))

\* min(item_length, sizeof(entry))
ReadLength(h) ==
    IF Lt32(HdrField(h, TopoItemLengthOff), N32(EntrySize))
      THEN Int32(HdrField(h, TopoItemLengthOff)) ELSE EntrySize

\* byte k of a stored entry
EntryByte(e, k) == ByteOf(e[(k \div 4) + 1], k % 4)

\* the spec the finished decode call of t1 has linked in
Decoded == heap[loc["t1"].node]

\* the call inserted exactly its own spec, at the head, with N slots
InsertedOne(l, h) ==
    /\ l.node = Len(heap) /\ Len(ScanOrder) = Len(heap)
    /\ ScanOrder[1] = l.node
    /\ Decoded.dev = l.dev
    /\ Decoded.num_items = Int32(HdrField(h, TopoNumItemsOff))
    /\ Len(Decoded.cfg) = Decoded.num_items

\* C4 as claimed, for a memory-mapped transport, whose reads cannot fail,
\* and a successful allocation: entry i holds the first
\* min(item_length, sizeof(entry)) bytes of the device's config structure
\* from offset table_offset + i*item_length, then zero bytes.
C4_EntriesHoldFirstBytes ==
    LET l == loc["t1"]
        h == hw[l.dev]
        off == Int32(HdrField(h, TopoOffsetOff))
        len == Int32(HdrField(h, TopoItemLengthOff))
    IN  (AtRet("parse") /\ h.reader = "mmio" /\ HeaderNonZero(h)
           /\ l.ret = "0")
        => /\ l.node # NIL /\ InsertedOne(l, h)
           /\ \A i \in 0..(Decoded.num_items - 1) : \A k \in 0..(EntrySize - 1) :
                 EntryByte(Decoded.cfg[i + 1], k)
                   = IF k < ReadLength(h)
                       THEN CfgByteN(h, off + i * len + k) ELSE 0

\* C4 as amended: for a header with three non-zero fields the call either
\* fails with -ENOMEM and inserts nothing, or inserts exactly one table
\* with num_items = N at the head of the registry.  With
\* r = min(item_length, sizeof(entry)): when r is a multiple of 4, entry i
\* holds the r/4 words the reader returns for the offsets
\* (table_offset + i*item_length + 4k) mod 2^32 (0 for a read the reader
\* refuses), then zero bytes; when r is no multiple of 4, nothing is
\* copied and every entry is all zero.
C4_EntriesHoldWholeWords ==
    LET l == loc["t1"]
        h == hw[l.dev]
        off == HdrField(h, TopoOffsetOff)
        len == Int32(HdrField(h, TopoItemLengthOff))
        r == ReadLength(h)
    IN  (AtRet("parse") /\ HeaderNonZero(h))
        => IF l.ret = "0"
             THEN /\ l.node # NIL /\ InsertedOne(l, h)
                  /\ \A i \in 0..(Decoded.num_items - 1) :
                       \A k \in 0..((EntrySize \div 4) - 1) :
                         Decoded.cfg[i + 1][k + 1]
                           = IF r % 4 = 0 /\ 4 * k < r
                               THEN readl_fn(h, Win0,
                                      Add32(off, N32(i * len + 4 * k))).val
                               ELSE Z32
             ELSE /\ l.ret = "-ENOMEM" /\ l.node = NIL
                  /\ Len(ScanOrder) = Len(heap)

\* a table whose items are longer than an entry has been decoded: the
\* second entry starts item_length, not sizeof(entry), behind the first
C4_Witness ==
    LET l == loc["t1"]
        h == hw[l.dev]
    IN  /\ AtRet("parse") /\ HeaderNonZero(h) /\ l.ret = "0"
        /\ Lt32(N32(EntrySize), HdrField(h, TopoItemLengthOff))
        /\ Decoded.num_items = 2
        /\ Decoded.cfg[2] # ZeroEntry

----------------------------------------------------------------------------
(* C5 *)

PciDevs == {d \in Devs : dev_is_pci(d)}

\* the PCI match rule in plain integers
PciHit(d, cfg) ==
    /\ cfg_type(cfg) = VIRTIO_IOMMU_TOPO_PCI_RANGE
    /\ Int32(pci_hierarchy(cfg)) = DevInfo[d].domain
    /\ pci_requester_start(cfg) <= DevInfo[d].devid
    /\ DevInfo[d].devid <= pci_requester_end(cfg)

PciEpid(d, cfg) ==
    Int32(pci_endpoint_start(cfg))
      + (DevInfo[d].devid - pci_requester_start(cfg))

\* every decoded entry of the registry, as <<node, index>>
Entries ==
    UNION {{<<n, i>> : i \in 1..heap[n].num_items} : n \in 1..Len(heap)}

EntryAt(e) == heap[e[1]].cfg[e[2]]

\* C5: a PCI device matches a PciRange entry iff its domain equals the
\* entry's hierarchy and requester_start <= requester ID <= requester_end;
\* the endpoint ID is then endpoint_start + (ID - requester_start).  A
\* resolution of a PCI device finds a table iff some entry matches by this
\* rule; with the table {0, 0x8..0xF -> 100}, {0, 0x10..0x1F -> 200}
\* requester 0x0B gets 103 and requester 0x10 gets 200, which is the ID
\* recorded in the fwspec once the ops are registered.
C5_PciRangeMatch ==
    LET l == loc["t1"]
        d == l.dev
    IN  /\ \A e \in Entries : \A p \in PciDevs :
             LET m == viommu_parse_pci(p, EntryAt(e), "uninit")
             IN  /\ m.found <=> PciHit(p, EntryAt(e))
                 /\ m.found => Int32(m.epid) = PciEpid(p, EntryAt(e))
                 /\ ~m.found => m.epid = "uninit"
        /\ (Scanned /\ dev_is_pci(d))
           => /\ l.found <=> \E e \in Entries : PciHit(d, EntryAt(e))
              /\ l.found =>
                   \E e \in Entries :
                      /\ e[1] = l.node /\ PciHit(d, EntryAt(e))
                      /\ Int32(l.epid) = PciEpid(d, EntryAt(e))
              /\ (l.found /\ l.viommu_dev = "vA" /\ hw["vA"] = HwA)
                 => /\ d = "e1" => Int32(l.epid) = 103
                    /\ d = "e2" => Int32(l.epid) = 200
                    /\ l.res = "Translated" => fwspec[d].ids = <<l.epid>>

\* requester 0x0B resolved to 103 through the first range of vA's table
C5_Witness ==
    LET l == loc["t1"]
    IN  /\ Scanned /\ l.dev = "e1" /\ l.viommu_dev = "vA"
        /\ l.res = "Translated" /\ l.epid = N32(103)
        /\ fwspec["e1"].ids = <<N32(103)>>

----------------------------------------------------------------------------
(* C7 *)

\* the resolver has to defer: the first matching table belongs to another
\* device and has no ops yet
MustDefer(l) ==
    /\ ~HadOps(l) /\ Scannable(l.dev)
    /\ FirstMatch(l.dev) # NIL
    /\ heap[FirstMatch(l.dev)].dev # l.dev
    /\ heap[FirstMatch(l.dev)].ops = NULL

\* C7: virt_dma_configure returns -EPROBE_DEFER exactly when the resolver
\* yields Deferred, which it does exactly when the first matching table is
\* another device's and has no ops; in every other case, a failing
\* iommu_fwspec_init included, it returns 0, and it hands on the resolver's
\* ops only when the resolver returned ops.
C7_DeferOnlyWhenDeferred ==
    LET l == loc["t1"]
    IN  AtRet("configure")
        => /\ l.res \in {"AlreadyTranslated", "NotApplicable", "Deferred",
                         "Error", "Translated"}
           /\ l.res = "Deferred" <=> MustDefer(l)
           /\ l.ret = "-EPROBE_DEFER" <=> l.res = "Deferred"
           /\ l.res # "Deferred" => l.ret = "0"
           /\ l.res \in {"Deferred", "Error", "NotApplicable"}
                => l.iommu_ops = NULL
           /\ l.res \in {"AlreadyTranslated", "Translated"}
                => l.iommu_ops = l.setup /\ l.setup # NULL

\* iommu_fwspec_init failed and virt_dma_configure returned 0
C7_Witness ==
    /\ AtRet("configure")
    /\ loc["t1"].res = "Error" /\ loc["t1"].setup = "ERR(-ENOMEM)"
    /\ loc["t1"].ret = "0"

----------------------------------------------------------------------------
(* C10 *)

PlatDevs == {d \in Devs : dev_is_platform(d)}

\* the platform match rule, on the words of the entry
PlatHit(d, cfg) ==
    /\ cfg_type(cfg) = VIRTIO_IOMMU_TOPO_ENDPOINT
    /\ DevInfo[d].mem # NoMem
    /\ cfg[3] = DevInfo[d].mem[1] /\ cfg[4] = DevInfo[d].mem[2]

\* C10: a platform device matches an entry iff the entry is of type
\* Endpoint and its 64-bit address equals the start of the device's first
\* memory resource, and the endpoint ID is then the entry's endpoint_id;
\* a resolution of a platform device finds a table iff the device has a
\* memory resource and some entry matches by this rule.
C10_PlatformEndpointMatch ==
    LET l == loc["t1"]
        d == l.dev
    IN  /\ \A e \in Entries : \A p \in PlatDevs :
             DevInfo[p].mem # NoMem =>
               LET m == viommu_parse_plat(p, EntryAt(e), "uninit")
               IN  /\ m.found <=> PlatHit(p, EntryAt(e))
                   /\ m.found => m.epid = EntryAt(e)[2]
                   /\ ~m.found => m.epid = "uninit"
        /\ (AtRet("configure") /\ ~HadOps(l) /\ dev_is_platform(d))
           => /\ l.found <=> \E e \in Entries : PlatHit(d, EntryAt(e))
              /\ l.found =>
                   \E e \in Entries :
                      /\ e[1] = l.node /\ PlatHit(d, EntryAt(e))
                      /\ l.epid = EntryAt(e)[2]
              /\ ~l.found => l.res = "NotApplicable"

\* a platform device resolved through the Endpoint entry of its address
C10_Witness ==
    LET l == loc["t1"]
    IN  /\ AtRet("configure") /\ l.dev = "p1" /\ l.found
        /\ l.res = "Translated" /\ l.epid = N32(7)
        /\ fwspec["p1"].ids = <<N32(7)>>

----------------------------------------------------------------------------
(* C6, under Spec: the calls of two threads interleave *)

\* the specs a scan reaches
Linked == {ScanOrder[k] : k \in 1..Len(ScanOrder)}

\* the specs whose list_add is under way
Inserting ==
    {loc[t].node : t \in {u \in Threads : pc[u] \in {"add_a", "add_b", "add_c"}}}

\* next and prev of the head and of every linked spec agree
WellLinked ==
    \A n \in Linked \cup {0} :
       /\ next[n] \in Linked \cup {0} /\ prev[n] \in Linked \cup {0}
       /\ prev[next[n]] = n /\ next[prev[n]] = n

\* C6: under any interleaving of insertions, virt_set_iommu_ops calls and
\* resolutions, every spec whose insertion has completed is reached by a
\* scan exactly once (the table count is the number of decode calls that
\* inserted), at most one insertion is under way, and a scan runs only
\* while no insertion is under way, on a well-linked list.
C6_RegistryNeverCorrupted ==
    /\ Cardinality(Inserting) <= 1
    /\ Linked = (1..Len(heap)) \ Inserting
    /\ Len(ScanOrder) = Cardinality(Linked)
    /\ Inserting = {} => WellLinked
    /\ \A t \in Threads :
          pc[t] \in {"setup_scan", "set_scan"}
            => mutex = t /\ Inserting = {} /\ WellLinked

\* an insertion is half done while the other thread, between its scan and
\* its return, has resolved a device on the older registry
C6_Witness ==
    \E t \in Threads : \E u \in Threads \ {t} :
       /\ pc[t] = "add_b" /\ Len(heap) = 2
       /\ pc[u] = "setup_post" /\ loc[u].found

----------------------------------------------------------------------------
(* C8, under Spec *)

\* C8: a call of viommu_parse_topology that reads a zero in one of the
\* three header fields returns 0 in one step that allocates nothing, does
\* not touch the lock, whoever holds it, and leaves the registry and every
\* fwspec as they were.
C8_ZeroHeaderNoTable ==
    [][\A t \in Threads :
          (pc[t] = "idle" /\ pc'[t] # "idle" /\ loc'[t].op = "parse"
             /\ ~HeaderNonZero(hw[loc'[t].dev]))
          => /\ pc'[t] = "ret" /\ loc'[t].ret = "0" /\ loc'[t].node = NIL
             /\ UNCHANGED <<heap, next, prev, mutex, fwspec>>]_vars

\* a decode of a zero header has returned while the other thread holds
\* the lock in the middle of its insertion
C8_Witness ==
    \E t \in Threads : \E u \in Threads \ {t} :
       /\ pc[t] = "ret" /\ loc[t].op = "parse"
       /\ ~HeaderNonZero(hw[loc[t].dev]) /\ loc[t].ret = "0"
       /\ mutex = u /\ pc[u] = "add_b"

----------------------------------------------------------------------------
(* C9, under SpecReader *)

\* offset + 4 <= length, computed without wrap-around
InCap(offset, cap) ==
    /\ Le32(N32(4), cap.length)
    /\ Le32(offset, Sub32(cap.length, N32(4)))

\* the 4 bytes the window selects lie inside the capability's structure
WindowInCap(w, cap) ==
    /\ w.bar = cap.bar
    /\ Le32(cap.offset, w.offset)
    /\ InCap(Sub32(w.offset, cap.offset), cap)

\* C9 as claimed: a read through the PCI window whose requested offset + 4
\* exceeds the capability's length fails: nothing is written to the window,
\* the data register is not read and the call returns 0; so a window that
\* was programmed always lies inside the capability's structure.
C9_NoOutOfBoundsRead ==
    LET l == loc["t1"]
        h == hw[l.dev]
    IN  (AtRet("readl") /\ h.reader = "pci")
        => /\ ~InCap(l.offset, h.cap)
                => ~l.issued /\ l.val = Z32 /\ win[l.dev] = l.win0
           /\ l.issued => WindowInCap(win[l.dev], h.cap)

----------------------------------------------------------------------------
(* C11, under SpecReader *)

\* C11: viommu_ccopy with a length that is no multiple of 4 calls the
\* reader zero times and leaves every word of the destination (and the
\* window) as it was; with a multiple of 4 it makes exactly length/4 reads,
\* read i at offset start + 4*i (a u32 sum), in the order of i, stores the
\* value of read i in dest[i] and leaves the rest of the destination alone.
C11_CcopyWholeWordsOrNothing ==
    LET l == loc["t1"]
        n == l.length \div 4
    IN  AtRet("ccopy")
        => IF l.length % 4 # 0
             THEN /\ l.reads = <<>> /\ l.dest = l.dest0
                  /\ win[l.dev] = l.win0
             ELSE /\ Len(l.reads) = n
                  /\ \A i \in 0..(n - 1) :
                        /\ l.reads[i + 1].offset = Add32(l.offset, N32(4 * i))
                        /\ l.dest[i + 1] = l.reads[i + 1].val
                        /\ l.reads[i + 1].val
                             = readl_fn(hw[l.dev], Win0,
                                        l.reads[i + 1].offset).val
                  /\ \A k \in (n + 1)..Len(l.dest0) : l.dest[k] = l.dest0[k]
                  /\ Len(l.dest) = Len(l.dest0)

\* a copy of 6 bytes over a destination that held data
C11_Witness ==
    LET l == loc["t1"]
    IN  /\ AtRet("ccopy") /\ l.length = 6
        /\ l.dest0 # ZeroEntry /\ l.dest = l.dest0 /\ l.reads = <<>>

----------------------------------------------------------------------------
(* C12, under Spec *)

\* the positions inside a critical section of viommus_lock: the steps of
\* list_add, the scan of virt_iommu_setup, the lookup of virt_set_iommu_ops
InCritical(t) ==
    pc[t] \in {"add_a", "add_b", "add_c", "parse_unlock", "setup_scan",
               "set_scan"}

\* a link of the list or the ops/fwnode of a linked spec is written
ListWritten ==
    \/ \E n \in DOMAIN next : next'[n] # next[n] \/ prev'[n] # prev[n]
    \/ \E n \in 1..Len(heap) :
          heap'[n].ops # heap[n].ops \/ heap'[n].fwnode # heap[n].fwnode

\* thread t makes this step
Moves(t) == pc'[t] # pc[t]

\* a step that runs the reader (the decode of viommu_parse_topology) or
\* iommu_fwspec_init and iommu_fwspec_add_ids (the end of virt_iommu_setup)
CallsOut(t) ==
    \/ pc[t] = "idle" /\ pc'[t] # "idle" /\ loc'[t].op = "parse"
    \/ pc[t] = "setup_post"

\* C12: every write and every scan of the registry list is made by the
\* thread that holds viommus_lock; at most one thread is inside a critical
\* section; a thread that returns, or is outside the module, does not hold
\* the lock; and the lock is not held by the thread that calls the reader,
\* iommu_fwspec_init or iommu_fwspec_add_ids.
C12_LockDiscipline ==
    /\ [](/\ \A t \in Threads : InCritical(t) => mutex = t
          /\ \A t \in Threads : ~InCritical(t) => mutex # t
          /\ Cardinality({t \in Threads : InCritical(t)}) <= 1)
    /\ [][\A t \in Threads :
            /\ (Moves(t) /\ ListWritten) => mutex = t /\ InCritical(t)
            /\ (Moves(t) /\ CallsOut(t)) => mutex # t]_vars

\* a thread is about to run iommu_fwspec_init without the lock while the
\* other thread holds it inside virt_set_iommu_ops
C12_Witness ==
    \E t \in Threads : \E u \in Threads \ {t} :
       /\ pc[t] = "setup_post"
       /\ SetupDecision(loc[t].found, loc[t].viommu_dev, loc[t].viommu_ops,
                        loc[t].dev) = "INIT"
       /\ pc[u] = "set_scan" /\ mutex = u

----------------------------------------------------------------------------
(* C13, under Spec *)

\* thread t enters virt_dma_configure for a device whose fwspec has ops
EntersTranslated(t) ==
    /\ pc[t] = "idle" /\ pc'[t] # "idle" /\ loc'[t].op = "configure"
    /\ fwspec[loc'[t].dev].set /\ fwspec[loc'[t].dev].ops # NULL

\* C13: when the device's fwspec already carries ops, virt_iommu_setup
\* returns those ops in one step that neither takes viommus_lock, whoever
\* holds it, nor scans, and the call leaves the fwspec and the registry
\* as they were.
C13_AlreadyTranslatedNoOp ==
    [][\A t \in Threads :
          /\ EntersTranslated(t)
             => /\ pc'[t] = "ret"
                /\ loc'[t].res = "AlreadyTranslated"
                /\ loc'[t].setup = fwspec[loc'[t].dev].ops
                /\ loc'[t].iommu_ops = loc'[t].setup /\ loc'[t].ret = "0"
                /\ ~loc'[t].found /\ loc'[t].node = NIL
                /\ UNCHANGED <<mutex, fwspec, heap, next, prev>>
          /\ (pc[t] = "ret" /\ Moves(t) /\ loc[t].op = "configure"
                /\ loc[t].res = "AlreadyTranslated")
             => UNCHANGED <<mutex, fwspec, heap, next, prev>>]_vars

\* an AlreadyTranslated resolution has returned while the other thread is
\* in the middle of an insertion, holding the lock
C13_Witness ==
    \E t \in Threads : \E u \in Threads \ {t} :
       /\ pc[t] = "ret" /\ loc[t].op = "configure"
       /\ loc[t].res = "AlreadyTranslated" /\ loc[t].setup # NULL
       /\ mutex = u /\ pc[u] = "add_c"

----------------------------------------------------------------------------
(* C14, under SpecSeq *)

\* the entries of spec that match d, by the match rules in plain terms
HitsIn(d, spec) ==
    {i \in 1..spec.num_items :
        IF dev_is_pci(d) THEN PciHit(d, spec.cfg[i])
                         ELSE PlatHit(d, spec.cfg[i])}

LowestHit(d, spec) ==
    CHOOSE i \in HitsIn(d, spec) : \A j \in HitsIn(d, spec) : i <= j

\* C14: the endpoint ID of a resolution is the one the lowest-index
\* matching entry of the table it was found in gives; entries behind it,
\* matching or not, have no influence.
C14_LowestIndexEntryWins ==
    LET l == loc["t1"]
        d == l.dev
    IN  (Scanned /\ l.found)
        => /\ l.node = FirstMatch(d)
           /\ HitsIn(d, heap[l.node]) # {}
           /\ LET e == heap[l.node].cfg[LowestHit(d, heap[l.node])]
              IN  IF dev_is_pci(d) THEN Int32(l.epid) = PciEpid(d, e)
                                   ELSE l.epid = e[2]

\* the table the device was found in holds two matching entries that give
\* different endpoint IDs
C14_Witness ==
    LET l == loc["t1"]
    IN  /\ Scanned /\ l.found
        /\ \E i \in HitsIn(l.dev, heap[l.node]) :
              /\ i > LowestHit(l.dev, heap[l.node])
              /\ MatchEntry(l.dev, heap[l.node].cfg[i], "uninit").epid
                   # l.epid

----------------------------------------------------------------------------
(* C15, under Spec *)

\* ops or fwnode of spec n is given another value by this step
OpsWritten(n) ==
    heap'[n].ops # heap[n].ops \/ heap'[n].fwnode # heap[n].fwnode

\* C15 as claimed: ops and fwnode of a table change at most once: they
\* start as NULL, so once one of them is set neither changes again.
C15_OpsChangeAtMostOnce ==
    [][\A n \in 1..Len(heap) :
          (heap[n].ops # NULL \/ heap[n].fwnode # NULL) => ~OpsWritten(n)]_vars

\* C15 as amended: a table is inserted with ops and fwnode NULL, and they
\* are written only by virt_set_iommu_ops(dev, ops) called for the table's
\* owning device, holding the lock; the call writes the newest table of
\* that owner and no other, sets ops to its argument and fwnode to the
\* device's fwnode, or to NULL when ops is NULL; such calls may change the
\* fields any number of times.
C15_OpsWrittenOnlyBySetOps ==
    [][/\ \A n \in 1..Len(heap) :
            OpsWritten(n)
            => \E t \in Threads :
                  /\ pc[t] = "set_scan" /\ Moves(t) /\ mutex = t
                  /\ loc[t].dev = heap[n].dev
                  /\ heap'[n].ops = loc[t].ops
                  /\ heap'[n].fwnode = IF loc[t].ops # NULL
                                         THEN DevInfo[loc[t].dev].fwnode
                                         ELSE NULL
                  /\ \A m \in Linked : heap[m].dev = heap[n].dev => m <= n
                  /\ \A m \in 1..Len(heap) : OpsWritten(m) => m = n
       /\ \A n \in (Len(heap) + 1)..Len(heap') :
            heap'[n].ops = NULL /\ heap'[n].fwnode = NULL]_vars

\* virt_set_iommu_ops(dev, NULL) is about to clear the ops it registered
\* earlier for the newer of two tables of the same owner
C15_Witness ==
    \E t \in Threads :
       /\ pc[t] = "set_scan" /\ loc[t].ops = NULL
       /\ FindByDev(loc[t].dev, ScanOrder) = 2
       /\ heap[2].ops # NULL /\ heap[1].dev = heap[2].dev

----------------------------------------------------------------------------
(* C16, under Spec *)

\* the call thread t is in, or enters with this step
OpOf(t) == IF pc[t] = "idle" THEN loc'[t].op ELSE loc[t].op

\* C16: a step changes the registry only as part of viommu_parse_topology,
\* which links exactly one new table in at the head and leaves every other
\* table linked, or as part of virt_set_iommu_ops, which changes ops and
\* fwnode of one table; virt_iommu_setup and virt_dma_configure change
\* nothing of it, whatever they return; no table is removed; owning device,
\* num_items and entries of a table never change.
C16_RegistryFrame ==
    [][/\ Len(heap') >= Len(heap)
       /\ \A n \in 1..Len(heap) :
            /\ heap'[n].dev = heap[n].dev
            /\ heap'[n].num_items = heap[n].num_items
            /\ heap'[n].cfg = heap[n].cfg
       /\ Linked \subseteq Linked'
       /\ ScanOrder' # ScanOrder
            => \E t \in Threads :
                  /\ Moves(t) /\ OpOf(t) = "parse"
                  /\ ScanOrder' = <<loc[t].node>> \o ScanOrder
                  /\ loc[t].node \notin Linked
       /\ \A t \in Threads :
            /\ (Moves(t) /\ OpOf(t) = "configure")
               => UNCHANGED <<heap, next, prev>>
            /\ (Moves(t) /\ OpOf(t) = "set_ops")
               => /\ UNCHANGED <<next, prev>> /\ Len(heap') = Len(heap)
                  /\ Cardinality({n \in 1..Len(heap) : OpsWritten(n)}) <= 1
            /\ (Moves(t) /\ OpOf(t) = "parse")
               => /\ Len(heap') <= Len(heap) + 1
                  /\ \A n \in 1..Len(heap) : ~OpsWritten(n)]_vars

\* a resolution has returned Translated and a second table has been
\* inserted behind the one it was resolved through
C16_Witness ==
    \E t \in Threads : \E u \in Threads \ {t} :
       /\ pc[t] = "ret" /\ loc[t].op = "configure"
       /\ loc[t].res = "Translated" /\ loc[t].node = 1
       /\ pc[u] = "ret" /\ loc[u].op = "parse" /\ loc[u].node = 2
       /\ ScanOrder = <<2, 1>>

----------------------------------------------------------------------------
(* C17, under SpecSeq *)

\* the type an entry must have to match device d
TypeFor(d) ==
    IF dev_is_pci(d) THEN VIRTIO_IOMMU_TOPO_PCI_RANGE
                     ELSE VIRTIO_IOMMU_TOPO_ENDPOINT

\* C17: the decoder stores an entry whatever its type, but an entry whose
\* type is neither PciRange nor Endpoint matches no device, a PCI device
\* matches no Endpoint entry and a platform device no PciRange entry,
\* whatever the other fields hold; so a resolution finds a table only
\* through an entry of the type of its bus, and finds none in a registry
\* without such an entry.
C17_OnlyOwnTypeMatches ==
    LET l == loc["t1"]
        d == l.dev
    IN  /\ \A e \in Entries : \A p \in Devs :
             cfg_type(EntryAt(e)) # TypeFor(p)
               => ~MatchEntry(p, EntryAt(e), "uninit").found
        /\ (Scanned /\ l.found)
           => \E i \in 1..heap[l.node].num_items :
                 /\ cfg_type(heap[l.node].cfg[i]) = TypeFor(d)
                 /\ l.epid = MatchEntry(d, heap[l.node].cfg[i], "uninit").epid
        /\ (Scanned /\ \A e \in Entries : cfg_type(EntryAt(e)) # TypeFor(d))
           => ~l.found /\ l.res = "NotApplicable"
        /\ (AtRet("parse") /\ loc["t1"].node # NIL
              /\ hw[loc["t1"].dev] = UnmatchedTable)
           => \A i \in 1..5 :
                 Decoded.cfg[i]
                   = SubSeq(UnmatchedTable.words, 4 * i - 3, 4 * i)

\* requester 0 of domain 0 was not found although the registry holds an
\* entry of unknown type, an all-zero entry and an Endpoint entry whose
\* words, read as a range of domain 0, cover it
C17_Witness ==
    LET l == loc["t1"]
    IN  /\ Scanned /\ l.dev = "e0" /\ ~l.found
        /\ \E e \in Entries :
              /\ cfg_type(EntryAt(e)) = 3
              /\ pci_hierarchy(EntryAt(e)) = Z32
              /\ pci_requester_start(EntryAt(e)) = 0
        /\ \E e \in Entries : EntryAt(e) = ZeroEntry
        /\ \E e \in Entries : EntryAt(e) = EndpointLikeRange

----------------------------------------------------------------------------
(* C18, under SpecSeq *)

\* C18 as claimed: a decode through the PCI window whose allocation
\* succeeded inserts its table with num_items = N and returns 0 whichever
\* reads failed, and a word of an entry whose 4 bytes do not lie inside
\* the device config capability is stored as 0, while the words inside it
\* hold the device's bytes.
C18_ReadOutsideCapStoresZero ==
    LET l == loc["t1"]
        h == hw[l.dev]
        off == HdrField(h, TopoOffsetOff)
        len == Int32(HdrField(h, TopoItemLengthOff))
        r == ReadLength(h)
    IN  (AtRet("parse") /\ h.reader = "pci" /\ HeaderNonZero(h)
           /\ l.ret = "0")
        => /\ l.node # NIL /\ InsertedOne(l, h)
           /\ \A i \in 0..(Decoded.num_items - 1) :
                \A k \in 0..((r \div 4) - 1) :
                  LET o == Add32(off, N32(i * len + 4 * k))
                  IN  Decoded.cfg[i + 1][k + 1]
                        = IF r % 4 = 0 /\ InCap(o, h.cap)
                            THEN LE32(CfgByte32(h, o),
                                      CfgByte32(h, Add32(o, N32(1))),
                                      CfgByte32(h, Add32(o, N32(2))),
                                      CfgByte32(h, Add32(o, N32(3))))
                            ELSE Z32

----------------------------------------------------------------------------
(* C19, under SpecSeq *)

\* the transport advertises the topology feature and, behind PCI, has the
\* three capabilities
CanRegister(h) ==
    /\ "TOPOLOGY" \in h.features
    /\ h.reader = "pci"
         => \A type \in {"COMMON_CFG", "DEVICE_CFG", "PCI_CFG"} :
               \E pos \in 1..Len(h.vndr) : h.vndr[pos] = type

\* C19: every table ever allocated for the registry belongs to a transport
\* that advertises the topology feature bit and, for a PCI transport, has
\* all three capabilities; the probe of a transport that lacks one of them
\* returns without calling the decoder and leaves the registry and its
\* lock as they were.
C19_OnlyAdvertisedTransportsRegister ==
    /\ [](\A n \in 1..Len(heap) : CanRegister(hw[heap[n].dev]))
    /\ [][\A t \in Threads :
            (/\ pc[t] = "idle" /\ pc'[t] # "idle"
             /\ loc'[t].op \in {"parse", "probe"}
             /\ ~CanRegister(hw[loc'[t].dev]))
            => /\ loc'[t].op = "probe" /\ pc'[t] = "ret"
               /\ UNCHANGED <<heap, next, prev, mutex>>]_vars

\* the probe of a PCI transport that advertises the feature but has no
\* PCI-config-window capability has returned, and the registry holds the
\* table of the other transport only
C19_Witness ==
    LET l == loc["t1"]
    IN  /\ AtRet("probe") /\ hw[l.dev].reader = "pci"
        /\ "TOPOLOGY" \in hw[l.dev].features
        /\ \A pos \in 1..Len(hw[l.dev].vndr) : hw[l.dev].vndr[pos] # "PCI_CFG"
        /\ Len(ScanOrder) = 1 /\ heap[ScanOrder[1]].dev # l.dev

----------------------------------------------------------------------------
(* C20, under SpecReader *)

\* C20 as claimed: whatever window earlier reads left behind, a read
\* through the PCI window of an offset with offset + 4 <= capability.length
\* writes the window's bar, then length = 4, then offset =
\* capability.offset + offset, then reads the data register, and returns
\* the 32-bit little-endian word at that offset of the capability's
\* structure.
C20_InBoundsReadProgramsWindow ==
    LET l == loc["t1"]
        h == hw[l.dev]
        a == l.accesses
    IN  (AtRet("readl") /\ h.reader = "pci" /\ InCap(l.offset, h.cap))
        => /\ Len(a) = 4
           /\ a[1].field = "bar" /\ a[1].val = h.cap.bar
           /\ a[2].field = "length" /\ a[2].val = N32(4)
           /\ a[3].field = "offset"
           /\ a[3].val = Add32(h.cap.offset, l.offset)
           /\ a[4].field = "data" /\ a[4].val = l.val
           /\ l.val = LE32(CfgByte32(h, l.offset),
                           CfgByte32(h, Add32(l.offset, N32(1))),
                           CfgByte32(h, Add32(l.offset, N32(2))),
                           CfgByte32(h, Add32(l.offset, N32(3))))

----------------------------------------------------------------------------
(* C21, under Spec *)

\* C21: in every state, every table allocated for the registry, linked or
\* about to be, that has no ops has no firmware node either.
C21_NoFwnodeWithoutOps ==
    \A n \in 1..Len(heap) : heap[n].ops = NULL => heap[n].fwnode = NULL

\* virt_set_iommu_ops(vA, NULL) has returned and left vA's table without
\* ops and firmware node, after the table carried both: e1 was translated
\* through it and still holds them in its fwspec
C21_Witness ==
    \E t \in Threads : \E n \in Linked :
       /\ pc[t] = "ret" /\ loc[t].op = "set_ops" /\ loc[t].ops = NULL
       /\ heap[n].dev = loc[t].dev
       /\ DevInfo[loc[t].dev].fwnode # NULL
       /\ heap[n].ops = NULL /\ heap[n].fwnode = NULL
       /\ fwspec["e1"].set
       /\ fwspec["e1"].ops = DriverOps[loc[t].dev]
       /\ fwspec["e1"].fwnode = DevInfo[loc[t].dev].fwnode

----------------------------------------------------------------------------
(* C22, under SpecSeq *)

\* C22: over calls of virt_dma_configure made one after the other, the
\* fwspec of a device holds at most one endpoint ID, and holds one exactly
\* when it was initialized with ops; the call that ends Translated started
\* without ops and without ID and leaves exactly the ID it resolved; a
\* call that starts with ops or with an ID takes the AlreadyTranslated
\* path and leaves the fwspec as it was.
C22_EndpointIdAddedOnce ==
    LET l == loc["t1"]
        d == l.dev
    IN  /\ \A e \in Devs :
             /\ Len(fwspec[e].ids) <= 1
             /\ Len(fwspec[e].ids) = 1
                  <=> (fwspec[e].set /\ fwspec[e].ops # NULL)
        /\ (AtRet("configure") /\ l.res = "Translated")
           => /\ ~HadOps(l) /\ l.fw0.ids = <<>>
              /\ fwspec[d].set /\ fwspec[d].ids = <<l.epid>>
        /\ (AtRet("configure") /\ (HadOps(l) \/ l.fw0.ids # <<>>))
           => l.res = "AlreadyTranslated" /\ fwspec[d] = l.fw0

\* a later call on a translated device has returned on the
\* AlreadyTranslated path although the table that translated it has lost
\* its ops since, and the fwspec still holds its one ID
C22_Witness ==
    LET l == loc["t1"]
    IN  /\ AtRet("configure") /\ l.res = "AlreadyTranslated"
        /\ Len(fwspec[l.dev].ids) = 1
        /\ FirstMatch(l.dev) # NIL
        /\ heap[FirstMatch(l.dev)].ops = NULL

----------------------------------------------------------------------------
(* C23, under SpecSeq *)

\* C23: a resolution that ends Deferred or NotApplicable returns with the
\* device's fwspec exactly as it found it; and a step changes the fwspec
\* of a device only as the step of a resolution of that device that ends
\* Translated, whose scan found a table with non-null ops owned by another
\* device, and it stores that table's ops and firmware node.
C23_FwspecFrame ==
    /\ [](AtRet("configure")
            /\ loc["t1"].res \in {"Deferred", "NotApplicable"}
          => fwspec[loc["t1"].dev] = loc["t1"].fw0)
    /\ [][\A d \in Devs :
            fwspec'[d] # fwspec[d]
            => \E t \in Threads :
                  /\ pc[t] = "setup_post" /\ Moves(t) /\ loc[t].dev = d
                  /\ loc'[t].res = "Translated"
                  /\ loc[t].found
                  /\ loc[t].viommu_ops # NULL
                  /\ loc[t].viommu_dev # d
                  /\ fwspec'[d].ops = loc[t].viommu_ops
                  /\ fwspec'[d].fwnode = loc[t].viommu_fwnode
                  /\ \A e \in Devs \ {d} : fwspec'[e] = fwspec[e]]_vars

\* the resolution of a transport that matches its own table, which has
\* ops, has returned NotApplicable and the transport has no fwspec
C23_Witness ==
    LET l == loc["t1"]
    IN  /\ AtRet("configure") /\ l.res = "NotApplicable"
        /\ l.found /\ l.viommu_dev = l.dev /\ l.viommu_ops # NULL
        /\ fwspec[l.dev] = NoFwspec

----------------------------------------------------------------------------
(* C24, under SpecSeq *)

\* what a step may do to the ops of the tables: a new table starts without
\* ops; ops become non-null only in the scan of virt_set_iommu_ops called
\* with these ops for the owner of a table that is linked in, and the scan
\* writes the newest linked table of that owner and no other; a scan for a
\* device that owns no linked table changes nothing
OpsProvenance ==
    /\ \A n \in (Len(heap) + 1)..Len(heap') : heap'[n].ops = NULL
    /\ \A n \in 1..Len(heap) :
          heap'[n].ops # heap[n].ops
          => \E t \in Threads :
                /\ pc[t] = "set_scan" /\ Moves(t)
                /\ n \in Linked /\ heap[n].dev = loc[t].dev
                /\ heap'[n].ops = loc[t].ops
                /\ \A m \in Linked : heap[m].dev = loc[t].dev => m <= n
                /\ \A m \in 1..Len(heap) \ {n} : heap'[m] = heap[m]
    /\ \A t \in Threads :
          (/\ pc[t] = "set_scan" /\ Moves(t)
           /\ \A m \in Linked : heap[m].dev # loc[t].dev)
          => heap' = heap

\* C24 as claimed: ops of a table are non-null only through
\* virt_set_iommu_ops called with non-null ops for its owner after its
\* insertion, a call for a device without table changes nothing, a call
\* updates at most one table, and every device that matches a table
\* without ops resolves to Deferred.
C24_UnsetOpsAlwaysDefer ==
    /\ [][OpsProvenance]_vars
    /\ [](Scanned
          => \A n \in Linked :
                (MatchesSpec(loc["t1"].dev, heap[n]) /\ heap[n].ops = NULL)
                => loc["t1"].res = "Deferred")

\* C24 as amended: the same, except that a table without ops makes a
\* device resolve to Deferred when it is the first table in scan order
\* that matches the device and the device is not its owner; the owner
\* resolves to NotApplicable, and a device that a newer table matches
\* resolves through that table.
C24_UnsetOpsDeferFirstMatch ==
    /\ [][OpsProvenance]_vars
    /\ [](Scanned
          => LET d == loc["t1"].dev
                 n == FirstMatch(d)
             IN  (n # NIL /\ heap[n].ops = NULL)
                 => /\ heap[n].dev # d
                       => /\ loc["t1"].res = "Deferred"
                          /\ loc["t1"].ret = "-EPROBE_DEFER"
                    /\ heap[n].dev = d => loc["t1"].res = "NotApplicable")

\* a device resolved to Deferred through a table that has no ops although
\* ops were registered for its owner: they went to the newer table of that
\* owner only
C24_Witness ==
    LET l == loc["t1"]
    IN  /\ Scanned /\ l.res = "Deferred"
        /\ l.node # NIL /\ heap[l.node].ops = NULL
        /\ \E m \in Linked :
              /\ m # l.node /\ heap[m].dev = heap[l.node].dev
              /\ heap[m].ops # NULL

====
